---- MODULE Spec2Model ----
(***************************************************************************)
(* kafka_consumer.py: a pool of worker processes, each draining one        *)
(* partition of a Kafka topic through a pykafka balanced consumer,         *)
(* buffering record payloads in self.messages and forwarding them to a     *)
(* Splunk HTTP Event Collector under redo.retry, committing offsets after  *)
(* a 200 response.                                                         *)
(*                                                                         *)
(* A record of a partition is modelled by its position 1, 2, 3, ... and    *)
(* its payload (m.value) by the same number, so payloads are distinct.     *)
(* An offset k (committed, or held by a session) means "records 1..k".     *)
(***************************************************************************)
EXTENDS Integers, Sequences, FiniteSets, TLC

\* ---------------------------------------------------------------- bounds
\* Number of records available in each partition; consumer.consume()
\* blocks once they are all read.
MaxLog == 6

\* ------------------------------------------------------- configuration
num_workers == 2
batch_size == 1
retry_attempts == 3
sleeptime == 2
max_sleeptime == 3
sleepscale == 2

Workers == 0 .. (num_workers - 1)

\* Results of one sendToSplunk invocation, as seen by retry().
\* Status codes are written as strings so that they share a type with the
\* two exceptional results.
OK == "200"
\* the status codes writeToHec may return
StatusCodes == {"200", "500"}
\* writeToHec raised instead of returning a status code
TransportError == "TransportError"
\* getConsumer raised inside sendToSplunk; writeToHec was not reached
AcquireError == "AcquireError"

HecResults == StatusCodes \cup {TransportError}

\* Exit codes.  NotExited stands for Python's None, the exitcode of a
\* process that is still running; a process ended by an uncaught exception
\* has exit code 1, a script that runs to its end has exit code 0.
NotExited == 0 - 1
EXIT_EXCEPTION == 1
EXIT_NORMAL == 0

VARIABLES
    mainpc,            \* main(): "spawn", "join" or "done"
    i,                 \* main(): loop variable of the start loop
    jobs,              \* module-level list of started processes
    j,                 \* main(): index into jobs of the process being joined
    pc,                \* per worker: position of the process
    starts,            \* per worker: number of p.start() calls (history)
    consumer,          \* per worker: self.consumer, the current session
    consumer_started,  \* per worker: self.consumer_started
    live,              \* per worker: sessions acquired and not stopped
    committed,         \* per partition: the group's committed offset
    consumed,          \* per worker: highest position ever consumed (history)
    messages,          \* per worker: self.messages
    n,                 \* per worker: retry()'s attempt counter
    cur_sleep,         \* per worker: retrier()'s running sleeptime
    slept,             \* per worker: sleeps of the current retry() call
    call,              \* per worker: attempts of the current retry() call
    accepted,          \* per worker: records in a payload answered 200
    exitcode,          \* per worker: exit code of the process
    main_exitcode      \* exit code of the pool process

vars == <<mainpc, i, jobs, j, pc, starts, consumer, consumer_started, live,
          committed, consumed, messages, n, cur_sleep, slept, call, accepted,
          exitcode, main_exitcode>>

mainvars == <<mainpc, i, jobs, j, starts, main_exitcode>>
retryvars == <<n, cur_sleep, slept, call>>

\* ------------------------------------------------------------- helpers
Range(s) == {s[k] : k \in 1 .. Len(s)}

Min(a, b) == IF a <= b THEN a ELSE b

NoConsumer == [pos |-> 0, start |-> 0, stopped |-> TRUE, acquired |-> FALSE]

\* Variant of getConsumer: the session starts after the last record any
\* earlier session returned, instead of at the committed offset.
getConsumer_FromLatest(w) ==
    [pos |-> consumed[w], start |-> consumed[w],
     stopped |-> FALSE, acquired |-> TRUE]

\* topic.get_balanced_consumer(...) with the default arguments: the session
\* joins the group and resumes from the group's committed offset.
getConsumer(w) ==
    [pos |-> committed[w], start |-> committed[w],
     stopped |-> FALSE, acquired |-> TRUE]

\* Variant of commit_offsets: a session that has returned no record commits
\* the beginning of the partition instead of the offset it resumed from.
commit_offsets_FreshIsZero(c) == IF c.pos = c.start THEN 0 ELSE c.pos

\* self.consumer.commit_offsets(): the offsets held by the session (the
\* last record it returned) become the group's committed offsets.
commit_offsets(c) == c.pos

\* self.consumer.stop()
stop(c) == [c EXCEPT !.stopped = TRUE]

\* Variant of appendAllowed: the comparison is strict.
appendAllowed_Strict(msgs) == Len(msgs) < batch_size

\* len(self.messages) <= self.batch_size
appendAllowed(msgs) == Len(msgs) <= batch_size

\* Variant of sendToSplunk: the offsets are committed whatever status
\* writeToHec returned.
sendToSplunk_CommitAnyStatus(w, acq, hec) ==
    LET need    == ~consumer_started[w]
        cons1   == IF need /\ acq THEN getConsumer(w) ELSE consumer[w]
        started1 == IF need /\ acq THEN TRUE ELSE consumer_started[w]
        live1   == IF need /\ acq THEN live[w] + 1 ELSE live[w]
        ev1     == IF need THEN <<"getConsumer">> ELSE <<>>
        payload == messages[w]
    IN  IF need /\ ~acq
        THEN [messages |-> messages[w], consumer |-> consumer[w],
              consumer_started |-> consumer_started[w], live |-> live[w],
              committed |-> committed[w], accepted |-> accepted[w],
              result |-> AcquireError, raised |-> TRUE,
              payload |-> payload, events |-> ev1]
        ELSE IF hec = TransportError
        THEN [messages |-> messages[w], consumer |-> cons1,
              consumer_started |-> started1, live |-> live1,
              committed |-> committed[w], accepted |-> accepted[w],
              result |-> TransportError, raised |-> TRUE,
              payload |-> payload, events |-> ev1 \o <<"writeToHec">>]
        ELSE IF hec = OK
        THEN [messages |-> <<>>, consumer |-> cons1,
              consumer_started |-> started1, live |-> live1,
              committed |-> commit_offsets(cons1),
              accepted |-> accepted[w] \cup Range(payload),
              result |-> hec, raised |-> FALSE,
              payload |-> payload,
              events |-> ev1 \o <<"writeToHec", "clear", "commit_offsets">>]
        ELSE [messages |-> <<>>, consumer |-> stop(cons1),
              consumer_started |-> FALSE, live |-> live1 - 1,
              committed |-> commit_offsets(cons1),
              accepted |-> accepted[w],
              result |-> hec, raised |-> TRUE,
              payload |-> payload,
              events |-> ev1 \o <<"writeToHec", "clear", "commit_offsets",
                                  "stop">>]

\* Variant of sendToSplunk: the payload is cleared only on status 200, a
\* rejected batch is kept.
sendToSplunk_KeepRejected(w, acq, hec) ==
    LET need    == ~consumer_started[w]
        cons1   == IF need /\ acq THEN getConsumer(w) ELSE consumer[w]
        started1 == IF need /\ acq THEN TRUE ELSE consumer_started[w]
        live1   == IF need /\ acq THEN live[w] + 1 ELSE live[w]
        ev1     == IF need THEN <<"getConsumer">> ELSE <<>>
        payload == messages[w]
    IN  IF need /\ ~acq
        THEN [messages |-> messages[w], consumer |-> consumer[w],
              consumer_started |-> consumer_started[w], live |-> live[w],
              committed |-> committed[w], accepted |-> accepted[w],
              result |-> AcquireError, raised |-> TRUE,
              payload |-> payload, events |-> ev1]
        ELSE IF hec = TransportError
        THEN [messages |-> messages[w], consumer |-> cons1,
              consumer_started |-> started1, live |-> live1,
              committed |-> committed[w], accepted |-> accepted[w],
              result |-> TransportError, raised |-> TRUE,
              payload |-> payload, events |-> ev1 \o <<"writeToHec">>]
        ELSE IF hec = OK
        THEN [messages |-> <<>>, consumer |-> cons1,
              consumer_started |-> started1, live |-> live1,
              committed |-> commit_offsets(cons1),
              accepted |-> accepted[w] \cup Range(payload),
              result |-> hec, raised |-> FALSE,
              payload |-> payload,
              events |-> ev1 \o <<"writeToHec", "clear", "commit_offsets">>]
        ELSE [messages |-> messages[w], consumer |-> stop(cons1),
              consumer_started |-> FALSE, live |-> live1 - 1,
              committed |-> committed[w], accepted |-> accepted[w],
              result |-> hec, raised |-> TRUE,
              payload |-> payload,
              events |-> ev1 \o <<"writeToHec", "stop">>]

\* Variant of sendToSplunk: getConsumer is called on every invocation,
\* whether or not a session is live.
sendToSplunk_AlwaysAcquire(w, acq, hec) ==
    LET need    == TRUE
        cons1   == IF need /\ acq THEN getConsumer(w) ELSE consumer[w]
        started1 == IF need /\ acq THEN TRUE ELSE consumer_started[w]
        live1   == IF need /\ acq THEN live[w] + 1 ELSE live[w]
        ev1     == IF need THEN <<"getConsumer">> ELSE <<>>
        payload == messages[w]
    IN  IF need /\ ~acq
        THEN [messages |-> messages[w], consumer |-> consumer[w],
              consumer_started |-> consumer_started[w], live |-> live[w],
              committed |-> committed[w], accepted |-> accepted[w],
              result |-> AcquireError, raised |-> TRUE,
              payload |-> payload, events |-> ev1]
        ELSE IF hec = TransportError
        THEN [messages |-> messages[w], consumer |-> cons1,
              consumer_started |-> started1, live |-> live1,
              committed |-> committed[w], accepted |-> accepted[w],
              result |-> TransportError, raised |-> TRUE,
              payload |-> payload, events |-> ev1 \o <<"writeToHec">>]
        ELSE IF hec = OK
        THEN [messages |-> <<>>, consumer |-> cons1,
              consumer_started |-> started1, live |-> live1,
              committed |-> commit_offsets(cons1),
              accepted |-> accepted[w] \cup Range(payload),
              result |-> hec, raised |-> FALSE,
              payload |-> payload,
              events |-> ev1 \o <<"writeToHec", "clear", "commit_offsets">>]
        ELSE [messages |-> <<>>, consumer |-> stop(cons1),
              consumer_started |-> FALSE, live |-> live1 - 1,
              committed |-> committed[w], accepted |-> accepted[w],
              result |-> hec, raised |-> TRUE,
              payload |-> payload,
              events |-> ev1 \o <<"writeToHec", "clear", "stop">>]

\* Variant of sendToSplunk: the payload is cleared also when writeToHec
\* raises.
sendToSplunk_ClearOnRaise(w, acq, hec) ==
    LET need    == ~consumer_started[w]
        cons1   == IF need /\ acq THEN getConsumer(w) ELSE consumer[w]
        started1 == IF need /\ acq THEN TRUE ELSE consumer_started[w]
        live1   == IF need /\ acq THEN live[w] + 1 ELSE live[w]
        ev1     == IF need THEN <<"getConsumer">> ELSE <<>>
        payload == messages[w]
    IN  IF need /\ ~acq
        THEN [messages |-> messages[w], consumer |-> consumer[w],
              consumer_started |-> consumer_started[w], live |-> live[w],
              committed |-> committed[w], accepted |-> accepted[w],
              result |-> AcquireError, raised |-> TRUE,
              payload |-> payload, events |-> ev1]
        ELSE IF hec = TransportError
        THEN [messages |-> <<>>, consumer |-> cons1,
              consumer_started |-> started1, live |-> live1,
              committed |-> committed[w], accepted |-> accepted[w],
              result |-> TransportError, raised |-> TRUE,
              payload |-> payload, events |-> ev1 \o <<"writeToHec", "clear">>]
        ELSE IF hec = OK
        THEN [messages |-> <<>>, consumer |-> cons1,
              consumer_started |-> started1, live |-> live1,
              committed |-> commit_offsets(cons1),
              accepted |-> accepted[w] \cup Range(payload),
              result |-> hec, raised |-> FALSE,
              payload |-> payload,
              events |-> ev1 \o <<"writeToHec", "clear", "commit_offsets">>]
        ELSE [messages |-> <<>>, consumer |-> stop(cons1),
              consumer_started |-> FALSE, live |-> live1 - 1,
              committed |-> committed[w], accepted |-> accepted[w],
              result |-> hec, raised |-> TRUE,
              payload |-> payload,
              events |-> ev1 \o <<"writeToHec", "clear", "stop">>]

\* One invocation of sendToSplunk by worker w.  acq: whether getConsumer
\* succeeds if it is called; hec: what writeToHec does.  The result holds
\* the new values of the fields the method assigns, the value retry() sees
\* (result), and the calls made in order (events).
sendToSplunk(w, acq, hec) ==
    LET need    == ~consumer_started[w]
        cons1   == IF need /\ acq THEN getConsumer(w) ELSE consumer[w]
        started1 == IF need /\ acq THEN TRUE ELSE consumer_started[w]
        live1   == IF need /\ acq THEN live[w] + 1 ELSE live[w]
        ev1     == IF need THEN <<"getConsumer">> ELSE <<>>
        payload == messages[w]
    IN  IF need /\ ~acq
        THEN [messages |-> messages[w], consumer |-> consumer[w],
              consumer_started |-> consumer_started[w], live |-> live[w],
              committed |-> committed[w], accepted |-> accepted[w],
              result |-> AcquireError, raised |-> TRUE,
              payload |-> payload, events |-> ev1]
        ELSE IF hec = TransportError
        THEN [messages |-> messages[w], consumer |-> cons1,
              consumer_started |-> started1, live |-> live1,
              committed |-> committed[w], accepted |-> accepted[w],
              result |-> TransportError, raised |-> TRUE,
              payload |-> payload, events |-> ev1 \o <<"writeToHec">>]
        ELSE IF hec = OK
        THEN [messages |-> <<>>, consumer |-> cons1,
              consumer_started |-> started1, live |-> live1,
              committed |-> commit_offsets(cons1),
              accepted |-> accepted[w] \cup Range(payload),
              result |-> hec, raised |-> FALSE,
              payload |-> payload,
              events |-> ev1 \o <<"writeToHec", "clear", "commit_offsets">>]
        ELSE [messages |-> <<>>, consumer |-> stop(cons1),
              consumer_started |-> FALSE, live |-> live1 - 1,
              committed |-> committed[w], accepted |-> accepted[w],
              result |-> hec, raised |-> TRUE,
              payload |-> payload,
              events |-> ev1 \o <<"writeToHec", "clear", "stop">>]

\* ---------------------------------------------------------------- init
Init ==
    /\ mainpc = "spawn"
    /\ i = 0
    /\ jobs = <<>>
    /\ j = 1
    /\ pc = [w \in Workers |-> "unstarted"]
    /\ starts = [w \in Workers |-> 0]
    /\ consumer = [w \in Workers |-> NoConsumer]
    /\ consumer_started = [w \in Workers |-> FALSE]
    /\ live = [w \in Workers |-> 0]
    /\ committed = [w \in Workers |-> 0]
    /\ consumed = [w \in Workers |-> 0]
    /\ messages = [w \in Workers |-> <<>>]
    /\ n = [w \in Workers |-> 0]
    /\ cur_sleep = [w \in Workers |-> 0]
    /\ slept = [w \in Workers |-> <<>>]
    /\ call = [w \in Workers |-> <<>>]
    /\ accepted = [w \in Workers |-> {}]
    /\ exitcode = [w \in Workers |-> NotExited]
    /\ main_exitcode = NotExited

\* ---------------------------------------------------------------- main
\* One iteration of "for i in range(num_workers)": create, append, start.
main_start ==
    /\ mainpc = "spawn"
    /\ i < num_workers
    /\ jobs' = Append(jobs, i)
    /\ pc' = [pc EXCEPT ![i] = "consume"]
    /\ starts' = [starts EXCEPT ![i] = @ + 1]
    /\ i' = i + 1
    /\ mainpc' = IF i + 1 < num_workers THEN "spawn" ELSE "join"
    /\ j' = j
    /\ UNCHANGED <<consumer, consumer_started, live, committed, consumed,
                   messages, n, cur_sleep, slept, call, accepted, exitcode,
                   main_exitcode>>

\* Variant of main_join: join() returns without waiting for the process.
main_join_NoWait ==
    /\ mainpc = "join"
    /\ j <= Len(jobs)
    /\ j' = j + 1
    /\ mainpc' = IF j + 1 <= Len(jobs) THEN "join" ELSE "done"
    /\ main_exitcode' = IF j + 1 <= Len(jobs) THEN NotExited ELSE EXIT_NORMAL
    /\ UNCHANGED <<i, jobs, pc, starts, consumer, consumer_started, live,
                   committed, consumed, messages, n, cur_sleep, slept, call,
                   accepted, exitcode>>

\* One iteration of "for j in jobs: j.join()": returns once that process
\* has exited.  After the last one main() returns and the script ends; no
\* exitcode of a process is read.
main_join ==
    /\ mainpc = "join"
    /\ j <= Len(jobs)
    /\ pc[jobs[j]] = "exited"
    /\ j' = j + 1
    /\ mainpc' = IF j + 1 <= Len(jobs) THEN "join" ELSE "done"
    /\ main_exitcode' = IF j + 1 <= Len(jobs) THEN NotExited ELSE EXIT_NORMAL
    /\ UNCHANGED <<i, jobs, pc, starts, consumer, consumer_started, live,
                   committed, consumed, messages, n, cur_sleep, slept, call,
                   accepted, exitcode>>

\* -------------------------------------------------------------- worker
\* worker() up to the while loop of consume(): the first getConsumer.  An
\* exception of getConsumer is not caught and ends the process.
consume_begin(w) ==
    /\ pc[w] = "consume"
    /\ \E acq \in BOOLEAN :
         IF acq
         THEN /\ consumer' = [consumer EXCEPT ![w] = getConsumer(w)]
              /\ consumer_started' = [consumer_started EXCEPT ![w] = TRUE]
              /\ live' = [live EXCEPT ![w] = @ + 1]
              /\ pc' = [pc EXCEPT ![w] = "loop"]
              /\ exitcode' = exitcode
         ELSE /\ pc' = [pc EXCEPT ![w] = "exited"]
              /\ exitcode' = [exitcode EXCEPT ![w] = EXIT_EXCEPTION]
              /\ UNCHANGED <<consumer, consumer_started, live>>
    /\ UNCHANGED <<mainvars, committed, consumed, messages, retryvars,
                   accepted>>

\* One iteration of the while loop up to the call of retry(): consume a
\* record, then either buffer it or enter retry() without buffering it.
consume_loop(w) ==
    /\ pc[w] = "loop"
    /\ consumer[w].pos < MaxLog
    /\ LET m == consumer[w].pos + 1 IN
         /\ consumer' = [consumer EXCEPT ![w].pos = m]
         /\ consumed' = [consumed EXCEPT ![w] = IF m > @ THEN m ELSE @]
         /\ IF appendAllowed(messages[w])
            THEN /\ messages' = [messages EXCEPT ![w] = Append(@, m)]
                 /\ pc' = pc
                 /\ n' = [n EXCEPT ![w] = 0]
                 /\ cur_sleep' = [cur_sleep EXCEPT ![w] = 0]
            ELSE /\ messages' = messages
                 /\ pc' = [pc EXCEPT ![w] = "retry"]
                 /\ n' = [n EXCEPT ![w] = 1]
                 /\ cur_sleep' = [cur_sleep EXCEPT ![w] = sleeptime]
         /\ slept' = [slept EXCEPT ![w] = <<>>]
         /\ call' = [call EXCEPT ![w] = <<>>]
    /\ UNCHANGED <<mainvars, consumer_started, live, committed, accepted,
                   exitcode>>

\* Variant of retry: the exception of the last attempt is swallowed and the
\* caller's loop goes on.
retry_SwallowLast(raised, nn) ==
    IF ~raised THEN "loop"
    ELSE IF nn = retry_attempts THEN "loop"
    ELSE "backoff"

\* Variant of retry: one attempt too many before giving up.
retry_OneMore(raised, nn) ==
    IF ~raised THEN "loop"
    ELSE IF nn = retry_attempts + 1 THEN "exited"
    ELSE "backoff"

\* Variant of retry: a returned action is retried like a failed one.
retry_IgnoreSuccess(raised, nn) ==
    IF nn = retry_attempts THEN (IF raised THEN "exited" ELSE "loop")
    ELSE "backoff"

\* Where retry() goes after attempt number nn of the action: back to the
\* caller's loop when the action returned; when it raised, the exception is
\* re-raised if nn == attempts (nothing in consume() or worker() catches it,
\* so the process ends), else retrier() is resumed for the backoff.
retry(raised, nn) ==
    IF ~raised THEN "loop"
    ELSE IF nn = retry_attempts THEN "exited"
    ELSE "backoff"

\* One attempt of retry(): invoke sendToSplunk and record the attempt.
retry_attempt(w) ==
    /\ pc[w] = "retry"
    /\ \E acq \in BOOLEAN, hec \in HecResults :
         LET r == sendToSplunk(w, acq, hec) IN
           /\ messages' = [messages EXCEPT ![w] = r.messages]
           /\ consumer' = [consumer EXCEPT ![w] = r.consumer]
           /\ consumer_started' =
                 [consumer_started EXCEPT ![w] = r.consumer_started]
           /\ live' = [live EXCEPT ![w] = r.live]
           /\ committed' = [committed EXCEPT ![w] = r.committed]
           /\ accepted' = [accepted EXCEPT ![w] = r.accepted]
           /\ call' = [call EXCEPT ![w] =
                         Append(@, [payload |-> r.payload,
                                    result |-> r.result,
                                    events |-> r.events])]
           /\ pc' = [pc EXCEPT ![w] = retry(r.raised, n[w])]
           /\ exitcode' = [exitcode EXCEPT ![w] =
                             IF retry(r.raised, n[w]) = "exited"
                             THEN EXIT_EXCEPTION ELSE @]
           /\ n' = [n EXCEPT ![w] = @ + 1]
    /\ UNCHANGED <<mainvars, consumed, cur_sleep, slept>>

\* Variant of retry_sleep: the sleep is not clamped to max_sleeptime.
retry_sleep_NoClamp(w) ==
    /\ pc[w] = "backoff"
    /\ LET sleeptime_real == cur_sleep[w] IN
         /\ slept' = [slept EXCEPT ![w] = Append(@, sleeptime_real)]
         /\ cur_sleep' = [cur_sleep EXCEPT ![w] = @ * sleepscale]
    /\ pc' = [pc EXCEPT ![w] = "retry"]
    /\ UNCHANGED <<mainvars, consumer, consumer_started, live, committed,
                   consumed, messages, n, call, accepted, exitcode>>

\* retrier() resumed after a failed attempt that was not the last: compute
\* the sleep, scale the running sleeptime, clamp, sleep, yield again.
retry_sleep(w) ==
    /\ pc[w] = "backoff"
    /\ LET sleeptime_real == Min(cur_sleep[w], max_sleeptime) IN
         /\ slept' = [slept EXCEPT ![w] = Append(@, sleeptime_real)]
         /\ cur_sleep' = [cur_sleep EXCEPT ![w] = @ * sleepscale]
    /\ pc' = [pc EXCEPT ![w] = "retry"]
    /\ UNCHANGED <<mainvars, consumer, consumer_started, live, committed,
                   consumed, messages, n, call, accepted, exitcode>>

Next ==
    \/ main_start
    \/ main_join
    \/ \E w \in Workers : consume_begin(w)
    \/ \E w \in Workers : consume_loop(w)
    \/ \E w \in Workers : retry_attempt(w)
    \/ \E w \in Workers : retry_sleep(w)

Spec == Init /\ [][Next]_vars

\* The same program under fair scheduling: main and every worker are
\* operating-system processes running sequential code, so a step that
\* stays possible is eventually taken.
SpecLive ==
    /\ Spec
    /\ WF_vars(main_start)
    /\ WF_vars(main_join)
    /\ \A w \in Workers :
          /\ WF_vars(consume_begin(w))
          /\ WF_vars(consume_loop(w))
          /\ WF_vars(retry_attempt(w))
          /\ WF_vars(retry_sleep(w))

\* ------------------------------------------------------------ properties
Last(s) == s[Len(s)]

\* the non-200 status codes
Rejections == StatusCodes \ {OK}

\* position of event e in the event list ev, 0 if absent
IndexOf(ev, e) ==
    IF e \in Range(ev)
    THEN CHOOSE k \in 1 .. Len(ev) :
           ev[k] = e /\ \A l \in 1 .. (k - 1) : ev[l] # e
    ELSE 0

\* worker w has just made an attempt in this step
Attempted(w) == pc[w] = "retry" /\ Len(call'[w]) = Len(call[w]) + 1

\* C1: in every delivery attempt, commit_offsets is invoked if and only if
\* writeToHec returned status 200 in that attempt, and then only after
\* writeToHec returned; an attempt that did not get status 200 leaves the
\* group's committed offset as it was, and one that did sets it to the
\* offset held by the session.
C1_CommitIffAccepted ==
    [][\A w \in Workers :
         Attempted(w) =>
           LET a == Last(call'[w]) IN
             /\ ("commit_offsets" \in Range(a.events)) <=> (a.result = OK)
             /\ a.result = OK =>
                   /\ IndexOf(a.events, "writeToHec") > 0
                   /\ IndexOf(a.events, "writeToHec")
                        < IndexOf(a.events, "commit_offsets")
                   /\ committed'[w] = consumer'[w].pos
             /\ a.result # OK => committed'[w] = committed[w]]_vars

\* C1 witness: one retry() call with a rejected attempt (no commit) and a
\* later accepted one (commit).
C1_Witness ==
    \E w \in Workers :
      /\ Len(call[w]) >= 2
      /\ call[w][1].result \in Rejections
      /\ "commit_offsets" \notin Range(call[w][1].events)
      /\ Last(call[w]).result = OK
      /\ "commit_offsets" \in Range(Last(call[w]).events)

\* C2: every record covered by the group's committed offset was in a
\* payload the endpoint answered with 200.
C2_CommittedImpliesDelivered ==
    \A w \in Workers :
      \A p \in 1 .. committed[w] : p \in accepted[w]

\* C3: a session resumes from the committed offset: every record that
\* was consumed and is not covered by the committed offset lies after the
\* start of the current session, so that session has returned it or will
\* return it; none is skipped.
C3_ResumeFromCommitted ==
    \A w \in Workers :
      (consumer[w].acquired /\ ~consumer[w].stopped) =>
        \A p \in 1 .. consumed[w] :
          p > committed[w] => p > consumer[w].start

\* C3 witness: a session acquired after a failed delivery stopped the
\* previous one has returned again a record consumed before and never
\* committed.
C3_Witness ==
    \E w \in Workers :
      /\ consumer[w].acquired /\ ~consumer[w].stopped
      /\ consumer[w].pos < consumed[w]
      /\ consumer[w].pos > consumer[w].start
      /\ consumer[w].pos > committed[w]


\* the attempts of the call that reached writeToHec
Sends(w) == {k \in 1 .. Len(call[w]) : call[w][k].result # AcquireError}

\* every attempt made so far in the call got a non-200 status code
AllRejected(w) ==
    \A k \in 1 .. Len(call[w]) : call[w][k].result \in Rejections

\* C4: within one retry() call every send attempt passes to writeToHec the
\* payload that the first attempt passed.
C4_SamePayloadEveryAttempt ==
    \A w \in Workers :
      \A k \in Sends(w) : call[w][k].payload = call[w][1].payload

\* C5: when the sends of a batch get non-200 on attempts 1..j-1 and 200
\* on attempt j >= 2, then on return from retry() exactly j-1 sleeps were
\* made, the committed offset covers the records of the batch, the
\* accumulator is empty and the worker is back in its consume loop.
C5_LateSuccessCommitsBatch ==
    \A w \in Workers :
      ( /\ Len(call[w]) >= 2
        /\ Last(call[w]).result = OK
        /\ \A k \in 1 .. (Len(call[w]) - 1) :
              call[w][k].result \in Rejections ) =>
        /\ Len(slept[w]) = Len(call[w]) - 1
        /\ \A p \in Range(call[w][1].payload) : p <= committed[w]
        /\ messages[w] = <<>>
        /\ pc[w] = "loop"

\* C6 as stated: when all retry_attempts sends of a batch got a non-200
\* status, the worker does not end: a session is acquired again and the
\* consume loop goes on.
C6_ExhaustionKeepsWorker ==
    \A w \in Workers :
      (Len(call[w]) = retry_attempts /\ AllRejected(w)) =>
        /\ pc[w] = "loop"
        /\ consumer_started[w]

\* C6 as amended: when all retry_attempts sends of a batch got a non-200
\* status, no attempt committed, the records of the batch are not covered
\* by the committed offset, the session is stopped and not acquired again,
\* and the exception has ended the worker process.
C6_ExhaustionEndsWorker ==
    \A w \in Workers :
      (Len(call[w]) = retry_attempts /\ AllRejected(w)) =>
        /\ pc[w] = "exited"
        /\ \A k \in 1 .. Len(call[w]) :
              "commit_offsets" \notin Range(call[w][k].events)
        /\ \A p \in Range(call[w][1].payload) : p > committed[w]
        /\ consumer[w].stopped
        /\ ~consumer_started[w]
        /\ live[w] = 0

\* C6 witness: a worker ended by retry exhaustion on a full batch.
C6_Witness ==
    \E w \in Workers :
      /\ pc[w] = "exited"
      /\ Len(call[w]) = retry_attempts
      /\ AllRejected(w)
      /\ Len(call[w][1].payload) > 0

\* C7: when the endpoint rejects every send, one retry() call makes
\* exactly retry_attempts attempts, each calling writeToHec once, and then
\* ends with the exception reaching the caller; before that it keeps
\* retrying, and no call ever makes more than retry_attempts attempts.
C7_ExactlyAttemptsOnRejection ==
    \A w \in Workers :
      /\ Len(call[w]) <= retry_attempts
      /\ (call[w] # <<>> /\ AllRejected(w)) =>
            /\ Cardinality(Sends(w)) = Len(call[w])
            /\ Len(call[w]) < retry_attempts =>
                  pc[w] \in {"backoff", "retry"}
            /\ Len(call[w]) = retry_attempts => pc[w] = "exited"
            /\ pc[w] = "exited" => Len(call[w]) = retry_attempts

\* C7 witness: a call that ended after retry_attempts rejected sends.
C7_Witness ==
    \E w \in Workers :
      /\ pc[w] = "exited"
      /\ AllRejected(w)
      /\ Cardinality(Sends(w)) = retry_attempts

\* C8: the attempt that gets status 200 is the last of its retry() call:
\* if it is attempt j, the call made j attempts and j-1 sleeps and has
\* returned to the consume loop.
C8_StopAtFirstSuccess ==
    \A w \in Workers :
      \A k \in 1 .. Len(call[w]) :
        call[w][k].result = OK =>
          /\ k = Len(call[w])
          /\ Len(slept[w]) = k - 1
          /\ pc[w] = "loop"

\* C8 witness: a call that succeeded on a later attempt than the first.
C8_Witness ==
    \E w \in Workers :
      /\ Len(call[w]) >= 2
      /\ Last(call[w]).result = OK
      /\ Len(slept[w]) = Len(call[w]) - 1

\* C9: the accumulator never holds more than batch_size records and no
\* payload handed to writeToHec has more than batch_size records.
C9_BatchAtMostBatchSize ==
    \A w \in Workers :
      /\ Len(messages[w]) <= batch_size
      /\ \A k \in Sends(w) : Len(call[w][k].payload) <= batch_size

\* C10: main starts each of the num_workers processes exactly once before
\* it joins, returns only when all of them have exited, an exited process
\* never runs again, and the exit of one process changes no other process.
C10_PoolLifecycle ==
    /\ [](\A w \in Workers :
            /\ starts[w] <= 1
            /\ mainpc \in {"join", "done"} => starts[w] = 1
            /\ mainpc = "done" => pc[w] = "exited")
    /\ [](mainpc \in {"join", "done"} => Len(jobs) = num_workers)
    /\ [][\A w \in Workers :
            /\ pc[w] = "exited" => pc'[w] = "exited"
            /\ (pc[w] # "exited" /\ pc'[w] = "exited") =>
                  \A v \in Workers \ {w} : pc'[v] = pc[v]]_vars

\* C10 witness: main has returned after one worker ended on retry
\* exhaustion while another went on consuming and ended later.
C10_Witness ==
    /\ mainpc = "done"
    /\ \E w, v \in Workers :
          /\ w # v
          /\ pc[w] = "exited" /\ pc[v] = "exited"
          /\ consumed[w] < consumed[v]

\* C11: once the pool process has ended, its exit code is 0 exactly when
\* every worker ended with exit code 0; it is not 0 if some worker was
\* ended by a fatal error.
C11_PoolExitStatus ==
    mainpc = "done" =>
      (main_exitcode = EXIT_NORMAL <=>
         \A w \in Workers : exitcode[w] = EXIT_NORMAL)

\* x to the power k
RECURSIVE Pow(_, _)
Pow(x, k) == IF k = 0 THEN 1 ELSE x * Pow(x, k - 1)

\* C12: the k-th sleep of a retry() call is
\* min(sleeptime * sleepscale^(k-1), max_sleeptime); the sleeps of a call
\* never decrease and none exceeds max_sleeptime.
C12_BackoffSequence ==
    \A w \in Workers :
      \A k \in 1 .. Len(slept[w]) :
        /\ slept[w][k] = Min(sleeptime * Pow(sleepscale, k - 1), max_sleeptime)
        /\ slept[w][k] <= max_sleeptime
        /\ k > 1 => slept[w][k - 1] <= slept[w][k]

\* C12 witness: a call whose first sleep is the base sleep and a later one
\* is longer and clamped to the maximum.
C12_Witness ==
    \E w \in Workers :
      /\ Len(slept[w]) >= 2
      /\ slept[w][1] = sleeptime
      /\ slept[w][1] < Last(slept[w])
      /\ Last(slept[w]) = max_sleeptime
      /\ sleeptime * Pow(sleepscale, Len(slept[w]) - 1) > max_sleeptime

\* worker w has just consumed a record in this step
Consumed(w) == pc[w] = "loop" /\ consumer'[w].pos = consumer[w].pos + 1

\* C13: every record returned by consumer.consume() is appended to
\* self.messages in the same loop iteration, also in the iteration that
\* finds the accumulator full.
C13_EveryConsumedBuffered ==
    [][\A w \in Workers :
         Consumed(w) =>
           messages'[w] = Append(messages[w], consumer'[w].pos)]_vars

\* a step in which no attempt of any worker ends otherwise than with 200
EndpointAccepts ==
    \A w \in Workers : Attempted(w) => Last(call'[w]).result = OK

\* the records of a partition that are followed, within the records the
\* partition holds, by enough records to fill and trigger another batch
FollowedByBatch == 1 .. (MaxLog - batch_size - 1)

\* C14: under fair scheduling, if from some point on every send is
\* accepted, then every record of the worker's partition is eventually in a
\* payload that was accepted, as long as the worker process has not ended.
C14_EventuallyDelivered ==
    (<>[][EndpointAccepts]_vars) =>
      \A w \in Workers :
        \A p \in FollowedByBatch :
          <>(p \in accepted[w] \/ pc[w] = "exited")

\* Supporting fact for C14, independent of the number of records: a record
\* that the committed offset covers and that is neither accepted nor in the
\* accumulator is never consumed, buffered or accepted again.
LostStaysLost ==
    [][\A w \in Workers :
         \A p \in 1 .. MaxLog :
           ( /\ p <= committed[w]
             /\ p \notin accepted[w]
             /\ p \notin Range(messages[w]) ) =>
             /\ p <= committed'[w]
             /\ p \notin accepted'[w]
             /\ p \notin Range(messages'[w])]_vars

\* C15: an attempt in which writeToHec returned a status code leaves
\* self.messages empty, whether the status was 200 (the call returns) or
\* not (the call raises); after status 200 the session is live, was not
\* stopped and was not acquired after the send, a session that was live
\* before the attempt is the same afterwards, and the worker is back in
\* its loop with the empty accumulator.
C15_ClearedAfterDispatch ==
    [][\A w \in Workers :
         Attempted(w) =>
           LET a == Last(call'[w]) IN
             /\ a.result \in StatusCodes => messages'[w] = <<>>
             /\ a.result = OK =>
                   /\ consumer_started'[w]
                   /\ ~consumer'[w].stopped
                   /\ live'[w] = 1
                   /\ "stop" \notin Range(a.events)
                   /\ IndexOf(a.events, "getConsumer")
                        < IndexOf(a.events, "writeToHec")
                   /\ consumer_started[w] => consumer'[w] = consumer[w]
                   /\ pc'[w] = "loop"]_vars

\* C15 witness: a full batch was sent, rejected, and the accumulator is
\* empty although nothing was delivered.
C15_Witness ==
    \E w \in Workers :
      /\ call[w] # <<>>
      /\ Last(call[w]).result \in Rejections
      /\ Len(Last(call[w]).payload) > 0
      /\ messages[w] = <<>>

\* C16: a worker never holds more than one session that was acquired and
\* not stopped; consumer_started is TRUE exactly when the current session
\* was acquired and not stopped; and inside retry() getConsumer is called
\* only in an attempt that follows one which stopped the session (or
\* which failed to acquire one after such a stop).
C16_OneLiveSession ==
    \A w \in Workers :
      /\ live[w] \in {0, 1}
      /\ consumer_started[w] <=>
            (consumer[w].acquired /\ ~consumer[w].stopped)
      /\ consumer_started[w] <=> (live[w] = 1)
      /\ \A k \in 1 .. Len(call[w]) :
            "getConsumer" \in Range(call[w][k].events) =>
              /\ k > 1
              /\ call[w][k - 1].result \in Rejections \cup {AcquireError}

\* C16 witness: a session was stopped by a rejected send and the next
\* attempt has acquired the one live session.
C16_Witness ==
    \E w \in Workers :
      /\ Len(call[w]) >= 2
      /\ call[w][1].result \in Rejections
      /\ "getConsumer" \in Range(call[w][2].events)
      /\ call[w][2].result = TransportError
      /\ consumer_started[w]
      /\ live[w] = 1

C18_RaiseLeavesStateUntouched ==
    [][\A w \in Workers :
         (Attempted(w) /\ Last(call'[w]).result = TransportError) =>
           /\ messages'[w] = messages[w]
           /\ consumer'[w] = consumer[w]
           /\ consumer_started'[w] = consumer_started[w]
           /\ committed'[w] = committed[w]]_vars

\* C18 as amended: an attempt in which writeToHec raises leaves
\* self.messages unchanged and commits nothing; if a session was live when
\* the attempt began, the session and consumer_started are unchanged, and
\* otherwise the attempt has acquired a new session, which stays live.  The
\* attempt after it sends the same payload without acquiring a session.
C18_RaiseKeepsBatch ==
    [][\A w \in Workers :
         Attempted(w) =>
           LET a == Last(call'[w]) IN
             /\ a.result = TransportError =>
                   /\ messages'[w] = messages[w]
                   /\ committed'[w] = committed[w]
                   /\ "commit_offsets" \notin Range(a.events)
                   /\ consumer_started'[w]
                   /\ ~consumer'[w].stopped
                   /\ live'[w] = 1
                   /\ consumer_started[w] =>
                         /\ consumer'[w] = consumer[w]
                         /\ "getConsumer" \notin Range(a.events)
                   /\ ~consumer_started[w] =>
                         "getConsumer" \in Range(a.events)
             /\ (call[w] # <<>> /\ Last(call[w]).result = TransportError) =>
                   /\ a.payload = Last(call[w]).payload
                   /\ "getConsumer" \notin Range(a.events)
                   /\ a.result # AcquireError]_vars

\* C18 witness: writeToHec raised on a full batch and the next attempt
\* sent the same records.
C18_Witness ==
    \E w \in Workers :
      /\ Len(call[w]) >= 2
      /\ call[w][1].result = TransportError
      /\ Len(call[w][1].payload) > 0
      /\ call[w][2].payload = call[w][1].payload
      /\ call[w][2].result \in StatusCodes

\* C19: the committed offset of a worker's partition never decreases and
\* never exceeds the highest position the worker has consumed; a commit
\* made on a session that has returned no record leaves it unchanged.
C19_CommittedMonotone ==
    /\ [](\A w \in Workers : committed[w] <= consumed[w])
    /\ [][\A w \in Workers :
            /\ committed'[w] >= committed[w]
            /\ ( /\ Attempted(w)
                 /\ Last(call'[w]).result = OK
                 /\ consumer'[w].pos = consumer'[w].start ) =>
                  committed'[w] = committed[w]]_vars

\* C19 witness: after an earlier commit, a later batch was rejected and
\* then a send on the newly acquired session was accepted; its commit left
\* the committed offset behind the consumed position.
C19_Witness ==
    \E w \in Workers :
      /\ call[w] # <<>>
      /\ Last(call[w]).result = OK
      /\ "getConsumer" \in Range(Last(call[w]).events)
      /\ committed[w] > 0
      /\ committed[w] < consumed[w]
      /\ consumer[w].pos = committed[w]

====
